---- MODULE Spec2Model ----
(***************************************************************************)
(* cmmn3: the temporal context alignment of convertState and the trace     *)
(* conversion of convertLog (src/cmmn3/convert.py), and the verdict        *)
(* decoder parseOut (src/cmmn3/parse.py).                                  *)
(*                                                                         *)
(* Spec      : convertState, one step per statement group of its case loop *)
(* SpecParse : parseOut, one step per state entry                          *)
(* SpecLog   : convertLog, one step per row of the csv reader              *)
(***************************************************************************)
EXTENDS Integers, Sequences, FiniteSets, TLC

\* ------------------------------------------------------------------ bounds
MaxDyn == 2      \* rows of the dynamic-attribute input
MaxEvt == 2      \* rows of one case in the event log
MaxStates == 2   \* state entries of one item in the encoded result
MaxRows == 3     \* data rows of the event log read by convertLog

\* `if case == 88: break`
StopCase == 88

\* the case ids of the inputs
Cases == {7, StopCase}
\* keys of concept_map
Attrs == {"Heart rate", "BP systolic"}
\* the static-attribute inputs: a row for every case, or none for case 7
StaticTables == {Cases, Cases \ {7}}
\* timestamps of the dynamic observations
DynTimes == {10, 20}
\* timestamps of the events: between the two observation times (before an
\* observation at 20, after one at 10), on an observation, after the last
EvtTimes == {15, 20, 25}

\* ------------------------------------------------------------------ state
VARIABLES
    ddf,        \* the dynamic-attribute input, rows in file order
    sdf,        \* the static-attribute input: the cases that have a row
    dtimes,     \* ddf with time:from / time:until
    pc,         \* position in convertState
    case,       \* the case of the current group
    events,     \* timestamps of the rows of the group handled so far, in log order
    keys,       \* idx of each handled row (history of `idx`)
    built,      \* number of convert_dyn_state calls made for the group
    states,     \* snapshot table of the group
    idx_state,  \* idx -> state_nr
    align,      \* state_nr of each handled row
    statg,      \* case -> static state
    dyng,       \* case -> [alignment, dynstates]
    out,        \* parseOut: item -> its list of state entries (st:all)
    itemObjs,   \* parseOut: item label -> id
    ppc,        \* position in parseOut
    todo,       \* items of g.triples not iterated yet
    item,       \* the item of the current triple
    pidx,       \* idx of enumerate(states): entries of the item handled so far
    errors,     \* item -> violation record
    finals,     \* item -> final-state record
    rows,       \* convertLog: the data rows of the csv file, in file order
    lpc,        \* position in convertLog
    pos,        \* rows the reader has handed out
    cur,        \* the case of the trace being collected, or None
    lcase,      \* `case` of convertLog: the case of the last row read
    rdf_evts,   \* events of the trace being collected
    case_stmts  \* the (case, statements) pairs collected

cvars == <<ddf, sdf, dtimes, pc, case, events, keys, built, states, idx_state,
           align, statg, dyng>>
pvars == <<out, itemObjs, ppc, todo, item, pidx, errors, finals>>
lvars == <<rows, lpc, pos, cur, lcase, rdf_evts, case_stmts>>
vars == <<cvars, pvars, lvars>>

\* ---------------------------------------------------------------- helpers
Min(S) == CHOOSE x \in S : \A y \in S : x <= y
Max(S) == CHOOSE x \in S : \A y \in S : x >= y
Range(f) == {f[i] : i \in DOMAIN f}

\* NaT: the missing value shift(-1) leaves in the last row of a group; a
\* time:until cell is NaT or holds one timestamp
NaT == {}

EmptyMap == [k \in {} |-> 0]

\* ------------------------------------------------- interval construction
\* ddf.groupby(['case:concept:name', 'concept:name'])['time:timestamp'].shift(-1):
\* the timestamp of the next row of the same group in FILE order
Shift(df, i) ==
    LET later == {j \in (i + 1)..Len(df) :
                    df[j].case = df[i].case /\ df[j].attr = df[i].attr}
    IN  IF later = {} THEN NaT ELSE {df[Min(later)].ts}

\* dtimes = ddf + time:until, time:timestamp renamed time:from
BuildIntervals(df) ==
    [i \in 1..Len(df) |->
        [case |-> df[i].case, attr |-> df[i].attr,
         from |-> df[i].ts, until |-> Shift(df, i)]]

\* ------------------------------------------------------- interval lookup
\* the row mask of the lookup: from <= ts and (ts <= until or until is NaT)
InInterval(r, ts) ==
    /\ ts >= r.from
    /\ ((\E u \in r.until : ts <= u) \/ r.until = NaT)

\* dyn_state: the rows of dtimes of the case whose interval contains ts
DynState(dt, c, ts) ==
    {i \in DOMAIN dt : dt[i].case = c /\ InInterval(dt[i], ts)}

\* tuple(dyn_state.index): the row labels of the selection, in file order
RECURSIVE IdxTuple(_)
IdxTuple(S) ==
    IF S = {} THEN <<>>
    ELSE <<Min(S)>> \o IdxTuple(S \ {Min(S)})

\* --------------------------------------------------------------- snapshots
\* sdf[sdf['case:concept:name'] == case]
StatState(c) == IF c \in sdf THEN {c} ELSE {}

\* convert_stat_state: one fact per static row
ConvertStatState(c, stat_state) ==
    [case |-> c, stat |-> stat_state]

\* convert_dyn_state: one fact per static row and one (concept, value) fact
\* per selected dynamic row
ConvertDynState(c, stat_state, dyn_state) ==
    [case |-> c, stat |-> stat_state,
     obs  |-> {<<dtimes[i].attr, i>> : i \in dyn_state}]

\* a cache that never hits
Encountered_Never(cache, idx) == FALSE

\* `idx in idx_state`
Encountered(cache, idx) == idx \in DOMAIN cache

\* a 1-based state number
NewStateNr_OneBased(tbl) == Len(tbl) + 1

\* `state_nr = len(states)`
NewStateNr(tbl) == Len(tbl)

\* the new snapshot put in front of the table
AppendState_Front(tbl, s) == <<s>> \o tbl

\* `states.append(...)`
AppendState(tbl, s) == Append(tbl, s)

\* a cache that outlives the case
NewCache_Kept(old) == old

\* `idx_state = {}` at the start of a case
NewCache(old) == EmptyMap

\* `idx_state[idx] = state_nr`
Remember(cache, idx, nr) ==
    [k \in DOMAIN cache \cup {idx} |-> IF k = idx THEN nr ELSE cache[k]]

\* ------------------------------------------------------------ convertState
DynRows == [case : Cases, attr : Attrs, ts : DynTimes]
DynTables == UNION {[1..n -> DynRows] : n \in 0..MaxDyn}

\* the value of `cur` before the first row
None == "None"

\* convertLog is not running
LogIdle ==
    /\ rows = <<>>
    /\ lpc = "idle"
    /\ pos = 0
    /\ cur = None
    /\ lcase = None
    /\ rdf_evts = <<>>
    /\ case_stmts = <<>>

\* parseOut is not running
ParseIdle ==
    /\ out = EmptyMap
    /\ itemObjs = EmptyMap
    /\ ppc = "idle"
    /\ todo = {}
    /\ item = ""
    /\ pidx = 0
    /\ errors = EmptyMap
    /\ finals = EmptyMap

Init ==
    /\ ParseIdle
    /\ LogIdle
    /\ ddf \in DynTables
    /\ sdf \in StaticTables
    /\ dtimes = <<>>
    /\ pc = "read"
    /\ case = 0
    /\ events = <<>>
    /\ keys = <<>>
    /\ built = 0
    /\ states = <<>>
    /\ idx_state = EmptyMap
    /\ align = <<>>
    /\ statg = EmptyMap
    /\ dyng = EmptyMap

\* lines 78-85: read the inputs, derive the intervals
ReadInputs ==
    /\ pc = "read"
    /\ dtimes' = BuildIntervals(ddf)
    /\ pc' = "groups"
    /\ UNCHANGED <<ddf, sdf, case, events, keys, built, states, idx_state,
                   align, statg, dyng, pvars, lvars>>

\* lines 89-102: the next group of edf.groupby (ascending case id); a fresh
\* table, cache and alignment; the static state of the case
BeginCase(c) ==
    /\ pc = "groups"
    /\ \A d \in DOMAIN dyng : d < c
    /\ case' = c
    /\ states' = <<>>
    /\ idx_state' = NewCache(idx_state)
    /\ align' = <<>>
    /\ events' = <<>>
    /\ keys' = <<>>
    /\ built' = 0
    /\ statg' = [k \in DOMAIN statg \cup {c} |->
                    IF k = c THEN ConvertStatState(c, StatState(c)) ELSE statg[k]]
    /\ pc' = "rows"
    /\ UNCHANGED <<ddf, sdf, dtimes, dyng, pvars, lvars>>

\* lines 105-126: one row of the group
HandleEvent(ts) ==
    /\ pc = "rows"
    /\ Len(events) < MaxEvt
    /\ LET dyn_state == DynState(dtimes, case, ts)
           idx == IdxTuple(dyn_state)
       IN  /\ IF Encountered(idx_state, idx)
              THEN /\ align' = Append(align, idx_state[idx])
                   /\ UNCHANGED <<states, idx_state, built>>
              ELSE LET state_nr == NewStateNr(states)
                   IN  /\ states' = AppendState(states,
                                ConvertDynState(case, StatState(case), dyn_state))
                       /\ idx_state' = Remember(idx_state, idx, state_nr)
                       /\ built' = built + 1
                       /\ align' = Append(align, state_nr)
           /\ keys' = Append(keys, idx)
    /\ events' = Append(events, ts)
    /\ UNCHANGED <<ddf, sdf, dtimes, pc, case, statg, dyng, pvars, lvars>>

\* lines 129-133: the group has no more rows (it has at least one)
EndCase ==
    /\ pc = "rows"
    /\ Len(events) >= 1
    /\ dyng' = [k \in DOMAIN dyng \cup {case} |->
                    IF k = case THEN [alignment |-> align, dynstates |-> states]
                    ELSE dyng[k]]
    /\ pc' = IF case = StopCase THEN "done" ELSE "groups"
    /\ UNCHANGED <<ddf, sdf, dtimes, case, events, keys, built, states,
                   idx_state, align, statg, pvars, lvars>>

\* lines 135-139: no group is left
Return ==
    /\ pc = "groups"
    /\ pc' = "done"
    /\ UNCHANGED <<ddf, sdf, dtimes, case, events, keys, built, states,
                   idx_state, align, statg, dyng, pvars, lvars>>

Next ==
    \/ ReadInputs
    \/ \E c \in Cases : BeginCase(c)
    \/ \E ts \in EvtTimes : HandleEvent(ts)
    \/ EndCase
    \/ Return

Spec == Init /\ [][Next]_vars

\* ------------------------------------------------ properties: convertState
\* the rows of dtimes of one (case, attribute) group
GroupRows(c, a) == {i \in DOMAIN dtimes : dtimes[i].case = c /\ dtimes[i].attr = a}

\* the rows of group (case, a) selected for the j-th handled event
SelectedOf(j, a) == Range(keys[j]) \cap GroupRows(case, a)

\* C1: while and after a case is processed, the alignment has one entry per
\* handled event of the case and every entry is an index into the snapshot
\* table of the case (0 <= i < len(states)); the emitted alignment and table
\* of every case satisfy the same.
C1_AlignmentShape ==
    /\ Len(align) = Len(events)
    /\ \A i \in DOMAIN align : align[i] \in 0..(Len(states) - 1)
    /\ case \in DOMAIN dyng =>
          /\ Len(dyng[case].alignment) = Len(events)
          /\ dyng[case].dynstates = states
    /\ \A c \in DOMAIN dyng : \A i \in DOMAIN dyng[c].alignment :
          dyng[c].alignment[i] \in 0..(Len(dyng[c].dynstates) - 1)

\* a case emitted after MaxEvt events that needed two snapshots
C1_Witness ==
    /\ pc = "done"
    /\ case \in DOMAIN dyng
    /\ Len(events) >= 2
    /\ Len(dyng[case].dynstates) >= 2

\* C2: within a case, an event whose identity key equals the key of an
\* earlier event gets that event's index; one snapshot is built, and the
\* table holds one entry, per distinct identity key.
C2_KeyReuse ==
    /\ \A i, j \in DOMAIN keys : keys[i] = keys[j] => align[i] = align[j]
    /\ built = Cardinality(Range(keys))
    /\ Len(states) = Cardinality(Range(keys))

\* two events at different instants inside the same observation interval
C2_Witness ==
    /\ Len(events) = 2
    /\ events[1] # events[2]
    /\ keys[1] = keys[2]
    /\ keys[1] # <<>>
    /\ align = <<0, 0>>
    /\ Len(states) = 1

\* C3: the k-th distinct identity key met in a case (k from 0) gets index k,
\* one more than the largest index before it, and its snapshot sits at
\* position k of the snapshot table.
C3_FirstOccurrenceOrder ==
    \A j \in DOMAIN align :
        LET before == {keys[i] : i \in 1..(j - 1)}
            seen == {align[i] : i \in 1..(j - 1)}
        IN  keys[j] \notin before =>
              /\ align[j] = Cardinality(before)
              /\ align[j] = IF seen = {} THEN 0 ELSE Max(seen) + 1
              /\ align[j] + 1 \in DOMAIN states
              /\ states[align[j] + 1].obs =
                    {<<dtimes[r].attr, r>> : r \in Range(keys[j])}

\* a second distinct key met after a first one
C3_Witness ==
    /\ align = <<0, 1>>
    /\ keys[1] # keys[2]
    /\ keys[2] # <<>>
    /\ Len(states) = 2

\* C4: for a group with observations at t1 < ... < tn, the selection for an
\* instant strictly between ti and t(i+1), or after tn, contains the
\* observation made at the latest timestamp before the instant; for an
\* instant before t1 it contains no observation of the group.
C4_SelectsLatestEarlier ==
    \A j \in DOMAIN events : \A a \in Attrs :
        LET G == GroupRows(case, a)
            ts == events[j]
            earlier == {i \in G : dtimes[i].from < ts}
        IN  (/\ \A x, y \in G : x # y => dtimes[x].from # dtimes[y].from
             /\ \A x \in G : dtimes[x].from # ts)
            => IF earlier = {}
               THEN SelectedOf(j, a) = {}
               ELSE \E i \in earlier :
                      /\ \A x \in earlier : dtimes[x].from <= dtimes[i].from
                      /\ i \in SelectedOf(j, a)

\* C5: at most one observation of a (case, attribute) group is selected for
\* any event, also for an event at the timestamp of an observation.
C5_AtMostOneSelected ==
    \A j \in DOMAIN events : \A a \in Attrs : Cardinality(SelectedOf(j, a)) <= 1

\* the rows that follow row i of its group in timestamp order (ties in file order)
After(i) ==
    {j \in GroupRows(ddf[i].case, ddf[i].attr) \ {i} :
        \/ ddf[j].ts > ddf[i].ts
        \/ ddf[j].ts = ddf[i].ts /\ j > i}

\* C6: whatever the order of the rows, the until of an observation is the
\* timestamp of the next observation of its group in timestamp order, or
\* unbounded for the last one; so from <= until.
C6_UntilIsNextInTimeOrder ==
    pc # "read" =>
        \A i \in DOMAIN dtimes :
            /\ dtimes[i].until =
                  IF After(i) = {} THEN NaT
                  ELSE {Min({ddf[j].ts : j \in After(i)})}
            /\ \A u \in dtimes[i].until : dtimes[i].from <= u

\* C7: for two lookups of a case at instants a <= b, both at or after the
\* first observation of a group, no observation of the group selected at b
\* is earlier than one selected at a.
C7_LookupMonotonic ==
    \A i, j \in DOMAIN events : \A a \in Attrs :
        LET G == GroupRows(case, a)
        IN  (/\ i # j
             /\ events[i] <= events[j]
             /\ \E x \in G : dtimes[x].from <= events[i])
            => \A x \in SelectedOf(i, a) : \A y \in SelectedOf(j, a) :
                  dtimes[y].from >= dtimes[x].from

\* C11: a case of the event log with no row in the static-attribute input
\* gets neither a static state nor a context snapshot (its processing ends
\* in an error instead).
C11_NoOutputWithoutStaticRow ==
    /\ \A c \in DOMAIN statg : c \in sdf
    /\ \A c \in DOMAIN dyng : c \in sdf
    /\ states # <<>> => case \in sdf

\* the events in ascending timestamp order, ties in log order
RECURSIVE SortByTime(_)
SortByTime(evs) ==
    IF evs = <<>> THEN <<>>
    ELSE LET first == Min({i \in DOMAIN evs :
                            \A j \in DOMAIN evs : evs[i] <= evs[j]})
             rest == [k \in 1..(Len(evs) - 1) |->
                        IF k < first THEN evs[k] ELSE evs[k + 1]]
         IN  <<evs[first]>> \o SortByTime(rest)

\* C12: whatever the order of the rows of a case in the log, the i-th row
\* visited is the i-th event in ascending timestamp order (ties in log
\* order): the i-th identity key, and so the i-th alignment entry, is the one
\* of that event.
C12_VisitsInTimestampOrder ==
    \A i \in DOMAIN keys :
        keys[i] = IdxTuple(DynState(dtimes, case, SortByTime(events)[i]))

\* the identity keys of the events of case c, looked up on their own
AloneKeys(evs, c) == [i \in DOMAIN evs |-> IdxTuple(DynState(dtimes, c, evs[i]))]

\* the first position of the key of position i
FirstAt(ks, i) == Min({j \in DOMAIN ks : ks[j] = ks[i]})

\* the alignment of a case processed alone: each key numbered by the distinct
\* keys before its first occurrence
AloneAlignment(ks) ==
    [i \in DOMAIN ks |-> Cardinality({ks[j] : j \in 1..(FirstAt(ks, i) - 1)})]

\* the snapshot of an identity key of case c
AloneSnapshot(k, c) ==
    [case |-> c, stat |-> StatState(c),
     obs |-> {<<dtimes[r].attr, r>> : r \in Range(k)}]

\* C13: the cache and the snapshot table are scoped to one case: the first
\* event of every case gets index 0, and the alignment and the table of a
\* case, while it is processed and as emitted, are those of the case processed
\* alone (one snapshot per distinct key, in order of first occurrence),
\* whatever cases were processed before it.
C13_CaseScopedCache ==
    LET ks == AloneKeys(events, case)
        al == AloneAlignment(ks)
    IN  /\ align # <<>> => align[1] = 0
        /\ align = al
        /\ Len(states) = Cardinality(Range(ks))
        /\ \A i \in DOMAIN ks :
              /\ al[i] + 1 \in DOMAIN states
              /\ states[al[i] + 1] = AloneSnapshot(ks[i], case)
        /\ case \in DOMAIN dyng =>
              dyng[case] = [alignment |-> align, dynstates |-> states]

\* case 88 emitted after case 7, both having met the empty identity key, case
\* 7 having left two entries in its cache
C13_Witness ==
    /\ pc = "done"
    /\ case = StopCase
    /\ DOMAIN dyng = Cases
    /\ Len(dyng[7].dynstates) = 2
    /\ \E n \in DOMAIN dyng[7].dynstates : dyng[7].dynstates[n].obs = {}
    /\ dyng[StopCase].alignment[1] = 0
    /\ dyng[StopCase].dynstates[1].obs = {}
    /\ Len(dyng[StopCase].dynstates) = 2

\* ---------------------------------------------------------------- parseOut
Items == {"Triage", "Exam"}
StateLabels == {"Inactive", "Completed"}
Kinds == {"inactiveToCompleted", "mandatoryNotDone"}
\* the detail of a state entry, as the list Collection(g, dnode) reads: one
\* value, or a value and a violation kind
Details == {<<"init">>} \cup {<<"final", k>> : k \in Kinds}
StateEntries == [typ : StateLabels, detail : Details]
EntryLists == UNION {[1..n -> StateEntries] : n \in 0..MaxStates}

\* the id of an item in itemObjs
ItemId(it) == "PlanItem_" \o it

\* convertState is not running
ConvertIdle ==
    /\ ddf = <<>>
    /\ sdf = {}
    /\ dtimes = <<>>
    /\ pc = "idle"
    /\ case = 0
    /\ events = <<>>
    /\ keys = <<>>
    /\ built = 0
    /\ states = <<>>
    /\ idx_state = EmptyMap
    /\ align = <<>>
    /\ statg = EmptyMap
    /\ dyng = EmptyMap

\* lines 9-12: the graph is parsed, errors and finals are empty
InitParse ==
    /\ ConvertIdle
    /\ LogIdle
    /\ out \in [Items -> EntryLists]
    /\ \E known \in SUBSET Items : itemObjs = [it \in known |-> ItemId(it)]
    /\ ppc = "items"
    /\ todo = Items
    /\ item = ""
    /\ pidx = 0
    /\ errors = EmptyMap
    /\ finals = EmptyMap

\* the first entry taken for the last
IsLast_First(i, n) == i = 0

\* `idx == len(states) - 1`
IsLast(i, n) == i = n - 1

\* `len(desc) > 1`
IsViolation(desc) == Len(desc) > 1

\* `finals[item] = { 'item': itemId, 'state': typ }`
RecordFinal(fin, it, typ) ==
    [k \in DOMAIN fin \cup {it} |->
        IF k = it THEN [item |-> itemObjs[it], state |-> typ] ELSE fin[k]]

\* `errors[item] = { 'item': itemId, 'error': error, 'state': typ }`
RecordError(err, it, desc, typ) ==
    [k \in DOMAIN err \cup {it} |->
        IF k = it THEN [item |-> itemObjs[it], error |-> desc[2], state |-> typ]
        ELSE err[k]]

\* lines 14-18: the next triple (item, st:all, list), in the store's order
NextItem(it) ==
    /\ ppc = "items"
    /\ it \in todo
    /\ it \in DOMAIN itemObjs
    /\ item' = it
    /\ pidx' = 0
    /\ todo' = todo \ {it}
    /\ ppc' = "states"
    /\ UNCHANGED <<out, itemObjs, errors, finals, cvars, lvars>>

\* line 16: itemObjs[item] of an item the model does not know raises KeyError
UnknownItem(it) ==
    /\ ppc = "items"
    /\ it \in todo
    /\ it \notin DOMAIN itemObjs
    /\ item' = it
    /\ ppc' = "KeyError"
    /\ UNCHANGED <<out, itemObjs, todo, pidx, errors, finals, cvars, lvars>>

\* lines 19-30: one state entry of the item
ParseEntry ==
    /\ ppc = "states"
    /\ pidx < Len(out[item])
    /\ LET state == out[item][pidx + 1]
           typ == state.typ
           desc == state.detail
           fin == IF IsLast(pidx, Len(out[item]))
                  THEN RecordFinal(finals, item, typ) ELSE finals
       IN  /\ finals' = fin
           /\ errors' = IF IsViolation(desc)
                        THEN RecordError(errors, item, desc, typ) ELSE errors
    /\ pidx' = pidx + 1
    /\ UNCHANGED <<out, itemObjs, ppc, todo, item, cvars, lvars>>

\* the list of the item is exhausted
EndItem ==
    /\ ppc = "states"
    /\ pidx = Len(out[item])
    /\ ppc' = "items"
    /\ UNCHANGED <<out, itemObjs, todo, item, pidx, errors, finals, cvars, lvars>>

\* line 32: return errors, finals
ReturnParse ==
    /\ ppc = "items"
    /\ todo = {}
    /\ ppc' = "returned"
    /\ UNCHANGED <<out, itemObjs, todo, item, pidx, errors, finals, cvars, lvars>>

NextParse ==
    \/ \E it \in Items : NextItem(it)
    \/ \E it \in Items : UnknownItem(it)
    \/ ParseEntry
    \/ EndItem
    \/ ReturnParse

SpecParse == InitParse /\ [][NextParse]_vars

\* ---------------------------------------------------- properties: parseOut
\* the entries of the item's list whose detail is a pair
ViolationEntries(it) == {i \in DOMAIN out[it] : Len(out[it][i].detail) > 1}

\* the violation records the result holds for the item
ViolationRecords(it) == IF it \in DOMAIN errors THEN {errors[it]} ELSE {}

\* C8: the result of parseOut holds, for every item with a non-empty list,
\* a final state equal to the state label of the last entry of the list,
\* whether or not entries of the list carry a violation.
C8_FinalIsLastEntry ==
    ppc = "returned" =>
        \A it \in Items :
            out[it] # <<>> =>
                /\ it \in DOMAIN finals
                /\ finals[it].state = out[it][Len(out[it])].typ
                /\ finals[it].item = itemObjs[it]

\* an item whose first entry carries a violation under another state label
\* than its last, plain entry
C8_Witness ==
    /\ ppc = "returned"
    /\ \E it \in Items :
          /\ Len(out[it]) = 2
          /\ out[it][1].typ # out[it][2].typ
          /\ Len(out[it][1].detail) > 1
          /\ Len(out[it][2].detail) = 1
          /\ it \in DOMAIN errors

\* C9: the result of parseOut holds, for every item, one violation record
\* (violation kind, state label) per entry of its list whose detail is a
\* pair, and no other: k such entries give k records.
C9_OneRecordPerViolation ==
    ppc = "returned" =>
        \A it \in Items :
            /\ Cardinality(ViolationRecords(it)) = Cardinality(ViolationEntries(it))
            /\ \A i \in ViolationEntries(it) :
                  \E r \in ViolationRecords(it) :
                      /\ r.error = out[it][i].detail[2]
                      /\ r.state = out[it][i].typ

\* C10: when an item of the encoded result has an empty list, parseOut does
\* not return a result.
C10_FailsOnEmptyList ==
    (\E it \in Items : out[it] = <<>>) => ppc # "returned"

\* --------------------------------------------------------------- convertLog
\* the values of the case:concept:name and concept:name columns
LogCases == {"7", "88"}
Activities == {"Triage", "Exam"}
LogRows == [case : LogCases, evt : Activities]
Logs == UNION {[1..n -> LogRows] : n \in 0..MaxRows}

\* str_to_uri: the quoted string in the model namespace
StrToUri(str) == <<"modelNs", str>>

\* ( planItemUri, ST['Completed'], RE['observation'] )
RdfEvt(evt) == <<StrToUri(evt), "Completed", "observation">>

\* to_stmts: the one statement case_uri cm:trace ( events )
ToStmts(evts, c) ==
    <<[s |-> StrToUri("case_" \o c), p |-> "trace", o |-> evts]>>

\* lines 148-150, 153: the file is open, nothing is read
InitLog ==
    /\ ConvertIdle
    /\ ParseIdle
    /\ rows \in Logs
    /\ lpc = "open"
    /\ pos = 0
    /\ cur = None
    /\ lcase = None
    /\ rdf_evts = <<>>
    /\ case_stmts = <<>>

\* line 151, `next(reader)`: a DictReader has taken the header line for its
\* field names, so the row handed out and dropped is the first data row
AfterSkip(n) == n + 1

\* line 151 on a file with a data row
SkipHeader ==
    /\ lpc = "open"
    /\ rows # <<>>
    /\ pos' = AfterSkip(pos)
    /\ lpc' = "loop"
    /\ UNCHANGED <<rows, cur, lcase, rdf_evts, case_stmts, cvars, pvars>>

\* line 151 on a file with no data row: next() raises StopIteration
SkipHeaderEmpty ==
    /\ lpc = "open"
    /\ rows = <<>>
    /\ lpc' = "StopIteration"
    /\ UNCHANGED <<rows, pos, cur, lcase, rdf_evts, case_stmts, cvars, pvars>>

\* lines 154-163: one row of the reader
ReadRow ==
    /\ lpc = "loop"
    /\ pos < Len(rows)
    /\ LET row == rows[pos + 1]
       IN  /\ lcase' = row.case
           /\ IF cur = None
              THEN /\ cur' = row.case
                   /\ rdf_evts' = Append(rdf_evts, RdfEvt(row.evt))
                   /\ UNCHANGED case_stmts
              ELSE IF cur # row.case
              THEN /\ case_stmts' = Append(case_stmts,
                                        <<cur, ToStmts(rdf_evts, cur)>>)
                   /\ cur' = row.case
                   /\ rdf_evts' = <<RdfEvt(row.evt)>>
              ELSE /\ rdf_evts' = Append(rdf_evts, RdfEvt(row.evt))
                   /\ UNCHANGED <<cur, case_stmts>>
    /\ pos' = pos + 1
    /\ UNCHANGED <<rows, lpc, cvars, pvars>>

\* lines 165-179: the reader is exhausted; the last trace, then the result
ReturnLog ==
    /\ lpc = "loop"
    /\ pos = Len(rows)
    /\ case_stmts' = IF cur # None
                     THEN Append(case_stmts, <<cur, ToStmts(rdf_evts, lcase)>>)
                     ELSE case_stmts
    /\ lpc' = "returned"
    /\ UNCHANGED <<rows, pos, cur, lcase, rdf_evts, cvars, pvars>>

NextLog ==
    \/ SkipHeader
    \/ SkipHeaderEmpty
    \/ ReadRow
    \/ ReturnLog

SpecLog == InitLog /\ [][NextLog]_vars

\* --------------------------------------------------- properties: convertLog
\* the rows of a case are consecutive in the log
Grouped(rs) ==
    \A i, j, k \in DOMAIN rs : (i < j /\ j < k /\ rs[i].case = rs[k].case)
                                  => rs[j].case = rs[i].case

\* the case ids of the log in order of first appearance
RECURSIVE CaseOrder(_)
CaseOrder(rs) ==
    IF rs = <<>> THEN <<>>
    ELSE <<Head(rs).case>> \o
         CaseOrder(SelectSeq(Tail(rs), LAMBDA r : r.case # Head(rs).case))

\* the events of the rows of case c, in log order
RECURSIVE TraceOf(_, _)
TraceOf(rs, c) ==
    IF rs = <<>> THEN <<>>
    ELSE (IF Head(rs).case = c THEN <<RdfEvt(Head(rs).evt)>> ELSE <<>>)
         \o TraceOf(Tail(rs), c)

\* C14: for a log grouped by case the result holds one trace per distinct
\* case id, in order of first appearance, and the trace of a case holds one
\* entry per data row of the case, in log order, the first data row of the
\* file included.
C14_NoEventLost ==
    (lpc = "returned" /\ Grouped(rows)) =>
        /\ Len(case_stmts) = Len(CaseOrder(rows))
        /\ \A k \in DOMAIN case_stmts :
              /\ case_stmts[k][1] = CaseOrder(rows)[k]
              /\ case_stmts[k][2] = ToStmts(TraceOf(rows, CaseOrder(rows)[k]),
                                            CaseOrder(rows)[k])

====
